---- MODULE Spec2Model ----
(***************************************************************************)
(* Model of spreadbot.py: the snapshot store (MarketState) and its file,   *)
(* the record normaliser (LiveSpreadBot.parse), the live detector          *)
(* (is_live), the polling cycle (run_once / run), the notifier's event     *)
(* loop (TelegramNotifier) and the start of the process.                   *)
(*                                                                         *)
(* Units.  Floats are modelled as integers: prices and spreads in units of *)
(* 1/160 (1.0 is 160, 0.05 is 8, 0.5 is 80), volumes in units of 50,000.   *)
(* Every price and spread of a record is a multiple of 5 units, that is of *)
(* 1/32, and every volume a whole number: binary fractions of a few bits,  *)
(* on which the float subtractions, sums and products of the code are      *)
(* exact, so that the integer arithmetic of the model is the arithmetic of *)
(* the code on these inputs.  A decimal threshold (0.05) lies strictly     *)
(* between two such values and compares with them as its float does.       *)
(* Inputs on which float operations round are outside the model.           *)
(***************************************************************************)
EXTENDS Integers, Sequences, FiniteSets

VARIABLES
    cfg,          \* self.cfg, the frozen Config
    data,         \* self.state.data: dict id -> snapshot
    file,         \* the file at cfg.DATA_FILE
    pc,           \* position of the main thread in run / run_once
    cycle,        \* number of run_once calls started (also the clock)
    page,         \* fetch: pages requested so far
    markets,      \* fetch: local list `markets`
    feed,         \* run_once: the list returned by fetch()
    idx,          \* run_once: index of the next record of feed (1-based)
    live_markets, \* run_once: local list `live_markets`
    selected,     \* run_once: local list `selected`
    k,            \* run_once: index of the next element of selected
    handed,       \* coroutines handed to the notifier loop in this cycle
    err,          \* what raised in the current cycle ("none" if nothing)
    startData,    \* history: data when the current run_once was entered
    startFile,    \* history: file when the current run_once was entered
    updCount,     \* history: update() calls per id in the current cycle
    totalUpd,     \* history: update() calls per id since construction
    cyclesSeen,   \* history: cycles in which update() was called for the id
    scored,       \* history: (score, m, pos) for every present is_live result
    nEvaluated,   \* history: records of feed passed to is_live and update
    evM,          \* history: the argument of the last is_live call
    evPrev,       \* history: what the last is_live call got from state.get
    evScore,      \* history: what the last is_live call returned
    saved,        \* history: the map the file holds in full (empty if none)
    saves,        \* history: save() calls in the current cycle
    loopq,        \* notifier loop: coroutines scheduled and not yet started
    inflight,     \* notifier loop: send_message coroutines started, not ended
    failed,       \* notifier loop: a send_message of this cycle has raised
    paced,        \* TELEGRAM_DELAY has elapsed since the last send started
    lateStart     \* the last send started during the sleep the main thread
                  \* is in

vars == <<cfg, data, file, pc, cycle, page, markets, feed, idx, live_markets,
          selected, k, handed, err, startData, startFile, updCount, totalUpd,
          cyclesSeen, scored, nEvaluated, evM, evPrev, evScore, saved,
          saves, loopq, inflight, failed, paced, lateStart>>

svars == <<saved, saves>>
nvars == <<loopq, inflight, failed, paced, lateStart>>

(***************************************************************************)
(* Bounds of the model.                                                    *)
(***************************************************************************)
MaxCycles == 2   \* run_once calls explored

Ids == {"m1", "m2", "m3", "m4", "m5", "m6", "m7"}

(***************************************************************************)
(* Config.  BotCfg is the dataclass defaults, which is what load_config    *)
(* builds: MIN_VOLUME 100,000 = 2 units, MIN_SPREAD 0.05 = 8, MAX_SPREAD   *)
(* 0.5 = 80, MAX_ALERTS_PER_CYCLE 6, MAX_PAGES 10.                         *)
(***************************************************************************)
BotCfg ==
    [MIN_VOLUME |-> 2, MIN_SPREAD |-> 8, MAX_SPREAD |-> 80,
     MIN_VOLUME_DELTA |-> 0, MIN_PRICE_MOVE |-> 0, PERSISTENCE_CYCLES |-> 1,
     MAX_ALERTS_PER_CYCLE |-> 6, MAX_PAGES |-> 10]

(***************************************************************************)
(* Raw records of the feed.  A field of a JSON object is missing, a number *)
(* (or a numeric string), or something float() raises on.  "question" is   *)
(* "str" (a string), "null" or "missing".  "events" is "absent", "list" (a *)
(* list whose first element is a mapping, or an empty list) or "bad" (a    *)
(* value whose first element has no get, or that has no length).           *)
(***************************************************************************)
Num(v) == [tag |-> "num", val |-> v]
Missing == [tag |-> "missing", val |-> 0]
NonNumeric == [tag |-> "nonnumeric", val |-> 0]

Raw(id, bid, ask, spread, vol) ==
    [mapping |-> TRUE, hasId |-> TRUE, id |-> id, question |-> "str",
     bestBid |-> bid, bestAsk |-> ask, spread |-> spread, volumeNum |-> vol,
     events |-> "list"]

\* The records the feed is made of.  A1 (0.375 / 0.4375, volume 100,000)
\* -> A2 (0.3125 / 0.5625, volume 150,000) scores 1 * 30 * 40 = 1200 and
\* B1 -> B2 ties with it; A2 -> A3 scores 300 and B2 -> B3 scores 500; a
\* record seen twice in a row passes every gate with a zero delta;
\* NoQuote lacks both quote legs; B3 has "question": null.
A1 == Raw("m1", Num(60), Num(70), Missing, Num(2))
A2 == Raw("m1", Num(50), Num(90), Missing, Num(3))
A3 == Raw("m1", Num(45), Num(90), Num(60), Num(4))
B1 == Raw("m2", Num(60), Num(70), Missing, Num(2))
B2 == Raw("m2", Num(50), Num(90), Num(0), Num(3))
B3 == [Raw("m2", Num(40), Num(90), Missing, Num(4)) EXCEPT !.question = "null"]
NoQuote == Raw("m2", Missing, Missing, Missing, Num(3))
BadBid == Raw("m2", NonNumeric, Num(70), Missing, Num(3))
BadVolume == Raw("m1", Num(60), Num(70), Missing, NonNumeric)
BadAsk == Raw("m1", Num(60), NonNumeric, Missing, Num(3))
BadSpread == Raw("m2", Num(60), Num(70), NonNumeric, Num(3))
BadEvents == [Raw("m1", Num(60), Num(70), Missing, Num(3)) EXCEPT !.events = "bad"]

NoIdRaw ==
    [mapping |-> TRUE, hasId |-> FALSE, id |-> "m1", question |-> "str",
     bestBid |-> Num(60), bestAsk |-> Num(70), spread |-> Missing,
     volumeNum |-> Num(3), events |-> "list"]

NotAMapping ==
    [mapping |-> FALSE, hasId |-> FALSE, id |-> "m1", question |-> "missing",
     bestBid |-> Missing, bestAsk |-> Missing, spread |-> Missing,
     volumeNum |-> Missing, events |-> "absent"]

(***************************************************************************)
(* Optional values.                                                        *)
(***************************************************************************)
None == [some |-> FALSE, val |-> 0]
Some(v) == [some |-> TRUE, val |-> v]

Abs(x) == IF x < 0 THEN -x ELSE x
Max(a, b) == IF a >= b THEN a ELSE b
Min(a, b) == IF a <= b THEN a ELSE b

(***************************************************************************)
(* float(raw.get(key, default)): the default when the key is missing, the  *)
(* number when there is one, an exception otherwise.                       *)
(***************************************************************************)
\* A raw.get that takes 0 for every absent number.
GetFloatZero(field, default) ==
    IF field.tag = "missing" THEN [ok |-> TRUE, val |-> 0]
    ELSE IF field.tag = "num" THEN [ok |-> TRUE, val |-> field.val]
    ELSE [ok |-> FALSE, val |-> 0]

GetFloat(field, default) ==
    IF field.tag = "missing" THEN [ok |-> TRUE, val |-> default]
    ELSE IF field.tag = "num" THEN [ok |-> TRUE, val |-> field.val]
    ELSE [ok |-> FALSE, val |-> 0]

(***************************************************************************)
(* LiveSpreadBot.parse.  ok = FALSE is the None of the except branch.      *)
(* event_slug and group_item_title, used for the link only, are left out.  *)
(* Market.question is the type of the value: raw.get("question",           *)
(* "No title") is a str, or None when the key holds null.                  *)
(***************************************************************************)
Reject ==
    [ok |-> FALSE, id |-> "m1", question |-> "str", volume |-> 0,
     best_bid |-> 0, best_ask |-> 0, spread |-> 0]

\* parse that reads the id with raw.get("id"), so that a record without
\* an id is accepted.
parse_id_get(raw) ==
    IF ~raw.mapping THEN Reject
    ELSE
      LET bid == GetFloat(raw.bestBid, 0)
          ask == GetFloat(raw.bestAsk, 160)
          spr == GetFloat(raw.spread, 0)
          vol == GetFloat(raw.volumeNum, 0)
      IN  IF ~bid.ok \/ ~ask.ok \/ ~spr.ok \/ ~vol.ok THEN Reject
          ELSE IF raw.events = "bad" THEN Reject
          ELSE [ok |-> TRUE, id |-> raw.id,
                question |-> IF raw.question = "null" THEN "NoneType"
                             ELSE "str",
                volume |-> vol.val,
                best_bid |-> bid.val, best_ask |-> ask.val,
                spread |-> Max(spr.val, ask.val - bid.val)]

parse(raw) ==
    IF ~raw.mapping THEN Reject            \* raw.get: AttributeError
    ELSE
      LET bid == GetFloat(raw.bestBid, 0)
          ask == GetFloat(raw.bestAsk, 160)
          spr == GetFloat(raw.spread, 0)
          vol == GetFloat(raw.volumeNum, 0)
      IN  IF ~bid.ok \/ ~ask.ok \/ ~spr.ok THEN Reject
          ELSE IF raw.events = "bad" THEN Reject   \* events[0].get, len
          ELSE IF ~raw.hasId THEN Reject   \* raw["id"]: KeyError
          ELSE IF ~vol.ok THEN Reject
          ELSE [ok |-> TRUE, id |-> raw.id,
                question |-> IF raw.question = "null" THEN "NoneType"
                             ELSE "str",
                volume |-> vol.val,
                best_bid |-> bid.val, best_ask |-> ask.val,
                spread |-> Max(spr.val, ask.val - bid.val)]

(***************************************************************************)
(* MarketState.  data is a function whose domain is the set of keys.       *)
(***************************************************************************)
NoSnapshot ==
    [present |-> FALSE, volume |-> 0, best_bid |-> 0, best_ask |-> 0,
     last_seen |-> 0, persistence |-> 0]

EmptyData == [i \in {} |-> NoSnapshot]

get(d, market_id) ==
    IF market_id \in DOMAIN d THEN d[market_id] ELSE NoSnapshot

\* update that writes persistence 1 whenever it writes.
update_reset(d, m, now) ==
    LET snap == [present |-> TRUE, volume |-> m.volume,
                 best_bid |-> m.best_bid, best_ask |-> m.best_ask,
                 last_seen |-> now, persistence |-> 1]
    IN  [i \in (DOMAIN d) \cup {m.id} |-> IF i = m.id THEN snap ELSE d[i]]

\* update that starts the count again for a market that was not seen in
\* the cycle before.
update_after_gap(d, m, now) ==
    LET prev == get(d, m.id)
        snap == [present |-> TRUE, volume |-> m.volume,
                 best_bid |-> m.best_bid, best_ask |-> m.best_ask,
                 last_seen |-> now,
                 persistence |-> IF prev.present /\ prev.last_seen >= now - 1
                                 THEN prev.persistence + 1
                                 ELSE 1]
    IN  [i \in (DOMAIN d) \cup {m.id} |-> IF i = m.id THEN snap ELSE d[i]]

update(d, m, now) ==
    LET prev == get(d, m.id)
        snap == [present |-> TRUE, volume |-> m.volume,
                 best_bid |-> m.best_bid, best_ask |-> m.best_ask,
                 last_seen |-> now,
                 persistence |-> IF prev.present THEN prev.persistence + 1
                                 ELSE 1]
    IN  [i \in (DOMAIN d) \cup {m.id} |-> IF i = m.id THEN snap ELSE d[i]]

\* is_live without the upper bound of the spread band.
is_live_no_max_spread(m, d, c) ==
    LET prev == get(d, m.id)
        volume_delta == m.volume - prev.volume
        price_move == Abs(m.best_bid - prev.best_bid)
                      + Abs(m.best_ask - prev.best_ask)
    IN  IF ~prev.present THEN None
        ELSE IF volume_delta < c.MIN_VOLUME_DELTA THEN None
        ELSE IF price_move < c.MIN_PRICE_MOVE THEN None
        ELSE IF prev.persistence < c.PERSISTENCE_CYCLES THEN None
        ELSE IF m.volume < c.MIN_VOLUME THEN None
        ELSE IF ~(c.MIN_SPREAD <= m.spread) THEN None
        ELSE Some(volume_delta * price_move * m.spread)

\* is_live that takes a missing snapshot for an empty one, read with the
\* defaults of prev.get (`prev = self.state.get(m.id) or {}`).
is_live_empty_prev(m, d, c) ==
    LET got == get(d, m.id)
        prev == IF got.present THEN got
                ELSE [NoSnapshot EXCEPT !.persistence = 1]
        volume_delta == m.volume - prev.volume
        price_move == Abs(m.best_bid - prev.best_bid)
                      + Abs(m.best_ask - prev.best_ask)
    IN  IF volume_delta < c.MIN_VOLUME_DELTA THEN None
        ELSE IF price_move < c.MIN_PRICE_MOVE THEN None
        ELSE IF prev.persistence < c.PERSISTENCE_CYCLES THEN None
        ELSE IF m.volume < c.MIN_VOLUME THEN None
        ELSE IF ~(c.MIN_SPREAD <= m.spread /\ m.spread <= c.MAX_SPREAD)
             THEN None
        ELSE Some(volume_delta * price_move * m.spread)

(***************************************************************************)
(* LiveSpreadBot.is_live: the gates in the order of the code.              *)
(***************************************************************************)
is_live(m, d, c) ==
    LET prev == get(d, m.id)
        volume_delta == m.volume - prev.volume
        price_move == Abs(m.best_bid - prev.best_bid)
                      + Abs(m.best_ask - prev.best_ask)
        persistence == prev.persistence
    IN  IF ~prev.present THEN None
        ELSE IF volume_delta < c.MIN_VOLUME_DELTA THEN None
        ELSE IF price_move < c.MIN_PRICE_MOVE THEN None
        ELSE IF persistence < c.PERSISTENCE_CYCLES THEN None
        ELSE IF m.volume < c.MIN_VOLUME THEN None
        ELSE IF ~(c.MIN_SPREAD <= m.spread /\ m.spread <= c.MAX_SPREAD)
             THEN None
        ELSE Some(volume_delta * price_move * m.spread)

\* One page of seven markets seen for the first time, and the page of the
\* same markets a cycle later: m1, m3, m5 have moved as A1 -> A2 (score
\* 1200), m2, m4, m6, m7 less (score 1 * 15 * 25 = 375).
First(id) == Raw(id, Num(60), Num(70), Missing, Num(2))
MovedMore(id) == Raw(id, Num(50), Num(90), Missing, Num(3))
MovedLess(id) == Raw(id, Num(55), Num(80), Missing, Num(3))

Wide1 ==
    << First("m1"), First("m2"), First("m3"), First("m4"), First("m5"),
       First("m6"), First("m7") >>

Wide2 ==
    << MovedMore("m1"), MovedLess("m2"), MovedMore("m3"), MovedLess("m4"),
       MovedMore("m5"), MovedLess("m6"), MovedLess("m7") >>

(***************************************************************************)
(* What one page of the feed can hold (r.json() of one request).           *)
(***************************************************************************)
Batches ==
    { <<A1, B1>>, <<A2, B2>>, <<A3, B3>>, <<A2>>,
      <<NoIdRaw, A2>>, <<BadBid, B2>>,
      <<NotAMapping, BadVolume, BadAsk, BadSpread, BadEvents>>,
      <<NoQuote>> }

(***************************************************************************)
(* What the API serves to one fetch: a listing is the sequence of its      *)
(* non-empty pages, after which the API returns an empty page.  Paged(B)   *)
(* is the listings of one or two pages of B.  NextPages(L) is the pages    *)
(* that some listing of L has after the pages fetch has read so far.       *)
(***************************************************************************)
RECURSIVE Concat(_)
Concat(pages) ==
    IF pages = <<>> THEN <<>> ELSE Head(pages) \o Concat(Tail(pages))

Paged(B) == { <<b>> : b \in B } \cup { <<a, b>> : a, b \in B }

Listings == Paged(Batches) \cup { <<Wide1>>, <<Wide2>> }

NextPages(L) ==
    IF pc # "fetch" THEN {}
    ELSE { f[page + 1] :
             f \in { g \in L : /\ Len(g) > page
                                /\ Concat(SubSeq(g, 1, page)) = markets } }

ZeroCount == [i \in Ids |-> 0]

(***************************************************************************)
(* The file at DATA_FILE.  json.dump writes the dict as the text of a JSON *)
(* object: a set of members, each a key (the id, a str, written as a JSON  *)
(* string) and an object of the five stored fields, each a number written  *)
(* in decimal.  A float is written as float.__repr__ gives it (volume,     *)
(* best_bid, best_ask and last_seen are floats: float(...) in parse,       *)
(* time.time() in update), an int (persistence) as its digits.  json.load  *)
(* reads the members back and turns each decimal text into a number.  A    *)
(* file is missing, written (a complete JSON text), or partial:            *)
(* open(path, "w") has truncated it and the text was not written to its    *)
(* end, which json.load cannot parse.                                      *)
(*                                                                         *)
(* A decimal text is [whole, point, frac]: the digits before the point as  *)
(* a number, whether there is a point, and the digits after it.  A scale   *)
(* [num, den] says what one unit of a model integer is as a number:        *)
(* v units are v * num / den.                                              *)
(***************************************************************************)
VolumeScale == [num |-> 50000, den |-> 1]
PriceScale == [num |-> 1, den |-> 160]
TimeScale == [num |-> 1, den |-> 1]
CountScale == [num |-> 1, den |-> 1]

\* A float the model's integers do not hold.
OffGrid == -1

RECURSIVE Pow10(_)
Pow10(n) == IF n = 0 THEN 1 ELSE 10 * Pow10(n - 1)

\* The decimal digits of r / den for 0 <= r < den, to the last non-zero one.
RECURSIVE FracDigits(_, _)
FracDigits(r, den) ==
    IF r = 0 THEN <<>>
    ELSE <<(10 * r) \div den>> \o FracDigits((10 * r) % den, den)

\* The digits of a sequence as a number.
RECURSIVE DigitsValue(_)
DigitsValue(ds) ==
    IF ds = <<>> THEN 0
    ELSE 10 * DigitsValue(SubSeq(ds, 1, Len(ds) - 1)) + ds[Len(ds)]

\* A float written with two digits after the point, as "%.2f" writes it
\* (the third digit rounds the second).
float_repr_2dp(v, scale) ==
    LET hundredths == (200 * v * scale.num + scale.den) \div (2 * scale.den)
    IN  [whole |-> hundredths \div 100, point |-> TRUE,
         frac |-> <<(hundredths % 100) \div 10, hundredths % 10>>]

\* float.__repr__ of a float below 1e16 whose decimal expansion is short:
\* the expansion itself, with ".0" when there is no fraction.
float_repr(v, scale) ==
    LET n == v * scale.num
        ds == FracDigits(n % scale.den, scale.den)
    IN  [whole |-> n \div scale.den, point |-> TRUE,
         frac |-> IF ds = <<>> THEN <<0>> ELSE ds]

\* int.__repr__
int_repr(v) == [whole |-> v, point |-> FALSE, frac |-> <<>>]

\* json.load on a number: int(text) without a point, float(text) with one;
\* the number read, in units of the scale.
json_number(t, scale) ==
    LET p == Pow10(Len(t.frac))
        n == (t.whole * p + DigitsValue(t.frac)) * scale.den
        d == p * scale.num
    IN  IF n % d = 0 THEN n \div d ELSE OffGrid

json_object(sn) ==
    [volume |-> float_repr(sn.volume, VolumeScale),
     best_bid |-> float_repr(sn.best_bid, PriceScale),
     best_ask |-> float_repr(sn.best_ask, PriceScale),
     last_seen |-> float_repr(sn.last_seen, TimeScale),
     persistence |-> int_repr(sn.persistence)]

json_dump(d) == { [key |-> i, value |-> json_object(d[i])] : i \in DOMAIN d }

json_load(text) ==
    [i \in { e.key : e \in text } |->
        LET e == CHOOSE x \in text : x.key = i
        IN  [present |-> TRUE,
             volume |-> json_number(e.value.volume, VolumeScale),
             best_bid |-> json_number(e.value.best_bid, PriceScale),
             best_ask |-> json_number(e.value.best_ask, PriceScale),
             last_seen |-> json_number(e.value.last_seen, TimeScale),
             persistence |-> json_number(e.value.persistence, CountScale)]]

file_missing == [state |-> "missing", content |-> {}]
file_written(d) == [state |-> "written", content |-> json_dump(d)]
file_partial == [state |-> "partial", content |-> {}]

(***************************************************************************)
(* `if score:` -- None and 0.0 are both false.                             *)
(***************************************************************************)
Truthy(score) == score.some /\ score.val # 0

(***************************************************************************)
(* list.sort(key=lambda x: x[0], reverse=True): a stable sort, descending. *)
(* Insert(e, s) puts e after every element of s whose score is >= e's.     *)
(***************************************************************************)
RECURSIVE Insert(_, _)
Insert(e, s) ==
    IF s = <<>> THEN <<e>>
    ELSE IF Head(s).score >= e.score THEN <<Head(s)>> \o Insert(e, Tail(s))
    ELSE <<e>> \o s

\* A sort that is not stable: an element goes before its equals.
RECURSIVE InsertBefore(_, _)
InsertBefore(e, s) ==
    IF s = <<>> THEN <<e>>
    ELSE IF Head(s).score > e.score
         THEN <<Head(s)>> \o InsertBefore(e, Tail(s))
    ELSE <<e>> \o s

RECURSIVE SortDescUnstable(_)
SortDescUnstable(s) ==
    IF s = <<>> THEN <<>>
    ELSE InsertBefore(s[Len(s)],
                      SortDescUnstable(SubSeq(s, 1, Len(s) - 1)))

RECURSIVE SortDesc(_)
SortDesc(s) ==
    IF s = <<>> THEN <<>>
    ELSE Insert(s[Len(s)], SortDesc(SubSeq(s, 1, Len(s) - 1)))

\* live_markets[: MAX_ALERTS_PER_CYCLE]
Truncate(s, n) == SubSeq(s, 1, Min(Len(s), n))

(***************************************************************************)
(* Initial state: LiveSpreadBot(load_config()) with no data file, at the   *)
(* top of run's loop.                                                      *)
(***************************************************************************)
NoMarket == Reject

Init ==
    /\ cfg = BotCfg
    /\ data = EmptyData
    /\ file = file_missing
    /\ pc = "run"
    /\ cycle = 0
    /\ page = 0
    /\ markets = <<>>
    /\ feed = <<>>
    /\ idx = 1
    /\ live_markets = <<>>
    /\ selected = <<>>
    /\ k = 1
    /\ handed = <<>>
    /\ err = "none"
    /\ startData = EmptyData
    /\ startFile = file_missing
    /\ updCount = ZeroCount
    /\ totalUpd = ZeroCount
    /\ cyclesSeen = ZeroCount
    /\ scored = <<>>
    /\ nEvaluated = 0
    /\ evM = NoMarket
    /\ evPrev = NoSnapshot
    /\ evScore = None
    /\ saved = EmptyData
    /\ saves = 0
    /\ loopq = <<>>
    /\ inflight = 0
    /\ failed = FALSE
    /\ paced = TRUE
    /\ lateStart = FALSE

(***************************************************************************)
(* run: `self.run_once()` is called; run_once starts with an empty         *)
(* live_markets and calls fetch(), which starts with markets = [].         *)
(***************************************************************************)
RunOnceStart ==
    /\ pc = "run"
    /\ cycle < MaxCycles
    /\ pc' = "fetch"
    /\ cycle' = cycle + 1
    /\ page' = 0
    /\ markets' = <<>>
    /\ live_markets' = <<>>
    /\ err' = "none"
    /\ startData' = data
    /\ startFile' = file
    /\ UNCHANGED <<cfg, data, file, feed, idx, selected, k, handed,
                   updCount, totalUpd, cyclesSeen, scored, nEvaluated,
                   evM, evPrev, evScore,
                   svars, nvars>>

(***************************************************************************)
(* fetch: one iteration of the page loop that gets a non-empty batch, the  *)
(* next page of the listing.                                               *)
(***************************************************************************)
FetchPage(batch) ==
    /\ pc = "fetch"
    /\ page < cfg.MAX_PAGES
    /\ markets' = markets \o batch
    /\ page' = page + 1
    /\ UNCHANGED <<cfg, data, file, pc, cycle, feed, idx, live_markets,
                   selected, k, handed, err, startData, startFile, updCount,
                   totalUpd, cyclesSeen, scored, nEvaluated, evM, evPrev,
                   evScore,
                   svars, nvars>>

(***************************************************************************)
(* fetch returns: an empty batch breaks the loop, or MAX_PAGES pages were  *)
(* read.  run_once starts iterating over the returned list.                *)
(***************************************************************************)
FetchReturn ==
    /\ pc = "fetch"
    /\ feed' = markets
    /\ idx' = 1
    /\ markets' = <<>>
    /\ pc' = "loop"
    /\ UNCHANGED <<cfg, data, file, cycle, page, live_markets, selected, k,
                   handed, err, startData, startFile, updCount, totalUpd,
                   cyclesSeen, scored, nEvaluated, evM, evPrev, evScore,
                   svars, nvars>>

\* fetch that swallows the error and returns the pages read so far.
FetchRaiseReturnsPartial ==
    /\ pc = "fetch"
    /\ page < cfg.MAX_PAGES
    /\ feed' = markets
    /\ idx' = 1
    /\ markets' = <<>>
    /\ err' = "fetch"
    /\ pc' = "loop"
    /\ UNCHANGED <<cfg, data, file, cycle, page, live_markets, selected, k,
                   handed, startData, startFile, updCount, totalUpd,
                   cyclesSeen, scored, nEvaluated, evM, evPrev, evScore,
                   svars, nvars>>

(***************************************************************************)
(* fetch raises (session.get, raise_for_status or r.json()): the exception *)
(* leaves fetch and run_once, with the pages read so far, and reaches the  *)
(* except clause of run.                                                   *)
(***************************************************************************)
FetchRaise ==
    /\ pc = "fetch"
    /\ page < cfg.MAX_PAGES
    /\ markets' = <<>>
    /\ err' = "fetch"
    /\ pc' = "except"
    /\ UNCHANGED <<cfg, data, file, cycle, page, feed, idx, live_markets,
                   selected, k, handed, startData, startFile, updCount,
                   totalUpd, cyclesSeen, scored, nEvaluated, evM, evPrev,
                   evScore,
                   svars, nvars>>

\* A loop that updates the store only for a record that got a score.
ProcessRecordUpdatesIfScored ==
    /\ pc = "loop"
    /\ idx <= Len(feed)
    /\ LET raw == feed[idx]
           m == parse(raw)
           score == is_live(m, data, cfg)
       IN  IF ~m.ok
           THEN UNCHANGED <<data, live_markets, updCount, totalUpd,
                            cyclesSeen, scored, nEvaluated, evM, evPrev,
                            evScore>>
           ELSE /\ evM' = m
                /\ evPrev' = get(data, m.id)
                /\ evScore' = score
                /\ data' = IF score.some THEN update(data, m, cycle) ELSE data
                /\ live_markets' =
                      IF Truthy(score)
                      THEN Append(live_markets,
                                  [score |-> score.val, m |-> m, pos |-> idx])
                      ELSE live_markets
                /\ scored' =
                      IF score.some
                      THEN Append(scored,
                                  [score |-> score.val, m |-> m, pos |-> idx])
                      ELSE scored
                /\ updCount' = [updCount EXCEPT ![m.id] = @ + 1]
                /\ totalUpd' = [totalUpd EXCEPT ![m.id] = @ + 1]
                /\ cyclesSeen' = [cyclesSeen EXCEPT ![m.id] =
                                     IF updCount[m.id] = 0 THEN @ + 1 ELSE @]
                /\ nEvaluated' = nEvaluated + 1
    /\ idx' = idx + 1
    /\ UNCHANGED <<cfg, file, pc, cycle, page, markets, feed, selected, k,
                   handed, err, startData, startFile,
                   svars, nvars>>

(***************************************************************************)
(* run_once: one iteration of `for raw in self.fetch()`.                   *)
(***************************************************************************)
ProcessRecord ==
    /\ pc = "loop"
    /\ idx <= Len(feed)
    /\ LET raw == feed[idx]
           m == parse(raw)
           score == is_live(m, data, cfg)
       IN  IF ~m.ok
           THEN UNCHANGED <<data, live_markets, updCount, totalUpd,
                            cyclesSeen, scored, nEvaluated, evM, evPrev,
                            evScore>>
           ELSE /\ evM' = m
                /\ evPrev' = get(data, m.id)
                /\ evScore' = score
                /\ data' = update(data, m, cycle)
                /\ live_markets' =
                      IF Truthy(score)
                      THEN Append(live_markets,
                                  [score |-> score.val, m |-> m, pos |-> idx])
                      ELSE live_markets
                /\ scored' =
                      IF score.some
                      THEN Append(scored,
                                  [score |-> score.val, m |-> m, pos |-> idx])
                      ELSE scored
                /\ updCount' = [updCount EXCEPT ![m.id] = @ + 1]
                /\ totalUpd' = [totalUpd EXCEPT ![m.id] = @ + 1]
                /\ cyclesSeen' = [cyclesSeen EXCEPT ![m.id] =
                                     IF updCount[m.id] = 0 THEN @ + 1 ELSE @]
                /\ nEvaluated' = nEvaluated + 1
    /\ idx' = idx + 1
    /\ UNCHANGED <<cfg, file, pc, cycle, page, markets, feed, selected, k,
                   handed, err, startData, startFile,
                   svars, nvars>>

\* A save that writes the store as the cycle found it.
SaveCycleStart ==
    /\ pc = "loop"
    /\ idx > Len(feed)
    /\ file' = file_written(startData)
    /\ saved' = startData
    /\ saves' = saves + 1
    /\ pc' = "rank"
    /\ UNCHANGED <<cfg, data, cycle, page, markets, feed, idx, live_markets,
                   selected, k, handed, err, startData, startFile, updCount,
                   totalUpd, cyclesSeen, scored, nEvaluated, evM, evPrev,
                   evScore, nvars>>

\* A save placed after the early return: skipped when nothing is live.
SaveOnlyIfLive ==
    /\ pc = "loop"
    /\ idx > Len(feed)
    /\ file' = IF live_markets = <<>> THEN file ELSE file_written(data)
    /\ saved' = IF live_markets = <<>> THEN saved ELSE data
    /\ saves' = IF live_markets = <<>> THEN saves ELSE saves + 1
    /\ pc' = "rank"
    /\ UNCHANGED <<cfg, data, cycle, page, markets, feed, idx, live_markets,
                   selected, k, handed, err, startData, startFile, updCount,
                   totalUpd, cyclesSeen, scored, nEvaluated, evM, evPrev,
                   evScore, nvars>>

(***************************************************************************)
(* run_once: the loop is over, self.state.save() writes the file.          *)
(***************************************************************************)
Save ==
    /\ pc = "loop"
    /\ idx > Len(feed)
    /\ file' = file_written(data)
    /\ saved' = data
    /\ saves' = saves + 1
    /\ pc' = "rank"
    /\ UNCHANGED <<cfg, data, cycle, page, markets, feed, idx, live_markets,
                   selected, k, handed, err, startData, startFile, updCount,
                   totalUpd, cyclesSeen, scored, nEvaluated, evM, evPrev,
                   evScore, nvars>>

(***************************************************************************)
(* save raises OSError: open(path, "w") failed and the file is as it was,  *)
(* or open truncated the file and the write failed.                        *)
(***************************************************************************)
SaveRaise ==
    /\ pc = "loop"
    /\ idx > Len(feed)
    /\ file' \in {file, file_partial}
    /\ saved' = IF file'.state = "partial" THEN EmptyData ELSE saved
    /\ saves' = saves + 1
    /\ err' = "save"
    /\ pc' = "except"
    /\ UNCHANGED <<cfg, data, cycle, page, markets, feed, idx, live_markets,
                   selected, k, handed, startData, startFile, updCount,
                   totalUpd, cyclesSeen, scored, nEvaluated, evM, evPrev,
                   evScore, nvars>>

(***************************************************************************)
(* run_once: return when nothing is live, else sort the list in place and  *)
(* take its first MAX_ALERTS_PER_CYCLE elements.                           *)
(***************************************************************************)
Rank ==
    /\ pc = "rank"
    /\ IF live_markets = <<>>
       THEN /\ pc' = "sleep"
            /\ UNCHANGED <<live_markets, selected, k>>
       ELSE /\ live_markets' = SortDesc(live_markets)
            /\ selected' = Truncate(live_markets', cfg.MAX_ALERTS_PER_CYCLE)
            /\ k' = 1
            /\ pc' = "notify"
    /\ UNCHANGED <<cfg, data, file, cycle, page, markets, feed, idx, handed,
                   err, startData, startFile, updCount, totalUpd, cyclesSeen,
                   scored, nEvaluated, evM, evPrev, evScore, svars, nvars>>

(***************************************************************************)
(* run_once: one iteration of `for _, m in selected` up to the hand-off:   *)
(* the message is built and notifier.send schedules the coroutine on the   *)
(* notifier loop (run_coroutine_threadsafe, line 131).                     *)
(***************************************************************************)
Notify ==
    /\ pc = "notify"
    /\ k <= Len(selected)
    /\ selected[k].m.question = "str"
    /\ handed' = Append(handed, selected[k])
    /\ loopq' = Append(loopq, selected[k].m.id)
    /\ pc' = "send_sleep"
    /\ UNCHANGED <<cfg, data, file, cycle, page, markets, feed, idx,
                   live_markets, selected, k, err, startData, startFile,
                   updCount, totalUpd, cyclesSeen, scored, nEvaluated, evM,
                   evPrev, evScore, svars, inflight, failed, paced,
                   lateStart>>

\* A send that returns only when the notifier loop has nothing left to do.
SendAwaitsDelivery ==
    /\ pc = "send_sleep"
    /\ loopq = <<>>
    /\ inflight = 0
    /\ k' = k + 1
    /\ paced' = (IF lateStart THEN paced ELSE TRUE)
    /\ lateStart' = FALSE
    /\ pc' = "notify"
    /\ UNCHANGED <<cfg, data, file, cycle, page, markets, feed, idx,
                   live_markets, selected, handed, err, startData, startFile,
                   updCount, totalUpd, cyclesSeen, scored, nEvaluated, evM,
                   evPrev, evScore, svars, loopq, inflight, failed>>

(***************************************************************************)
(* notifier.send: time.sleep(TELEGRAM_DELAY) ends (line 132), send returns *)
(* and the iteration is over.  The sleep began at the hand-off: a send     *)
(* that had started before is a delay old now; of one that started during  *)
(* the sleep nothing follows.                                              *)
(***************************************************************************)
SendSleep ==
    /\ pc = "send_sleep"
    /\ k' = k + 1
    /\ paced' = (IF lateStart THEN paced ELSE TRUE)
    /\ lateStart' = FALSE
    /\ pc' = "notify"
    /\ UNCHANGED <<cfg, data, file, cycle, page, markets, feed, idx,
                   live_markets, selected, handed, err, startData, startFile,
                   updCount, totalUpd, cyclesSeen, scored, nEvaluated, evM,
                   evPrev, evScore, svars, loopq, inflight, failed>>

(***************************************************************************)
(* run_once: clean_question(m.question) calls re.sub on a question that is *)
(* None and raises TypeError before anything is handed to the notifier.    *)
(***************************************************************************)
NotifyRaise ==
    /\ pc = "notify"
    /\ k <= Len(selected)
    /\ selected[k].m.question # "str"
    /\ err' = "notify"
    /\ pc' = "except"
    /\ UNCHANGED <<cfg, data, file, cycle, page, markets, feed, idx,
                   live_markets, selected, k, handed, startData, startFile,
                   updCount, totalUpd, cyclesSeen, scored, nEvaluated, evM,
                   evPrev, evScore,
                   svars, nvars>>

\* run_once returns after the last send.
NotifyDone ==
    /\ pc = "notify"
    /\ k > Len(selected)
    /\ pc' = "sleep"
    /\ UNCHANGED <<cfg, data, file, cycle, page, markets, feed, idx,
                   live_markets, selected, k, handed, err, startData,
                   startFile, updCount, totalUpd, cyclesSeen, scored,
                   nEvaluated, evM, evPrev, evScore,
                   svars, nvars>>

\* A handler that logs and lets the error end run.
ExceptExits ==
    /\ pc = "except"
    /\ pc' = "exit"
    /\ UNCHANGED <<cfg, data, file, cycle, page, markets, feed, idx,
                   live_markets, selected, k, handed, err, startData,
                   startFile, updCount, totalUpd, cyclesSeen, scored,
                   nEvaluated, evM, evPrev, evScore,
                   svars, nvars>>

(***************************************************************************)
(* run: `except Exception: log.exception("Cycle error")`.                  *)
(***************************************************************************)
Except ==
    /\ pc = "except"
    /\ pc' = "sleep"
    /\ UNCHANGED <<cfg, data, file, cycle, page, markets, feed, idx,
                   live_markets, selected, k, handed, err, startData,
                   startFile, updCount, totalUpd, cyclesSeen, scored,
                   nEvaluated, evM, evPrev, evScore,
                   svars, nvars>>

(***************************************************************************)
(* run: time.sleep(CHECK_INTERVAL) ends and the loop goes round; the sleep *)
(* began when the thread came to this position.  CHECK_INTERVAL (180 s) is *)
(* longer than TELEGRAM_DELAY, so a send that had started before the sleep *)
(* began is a delay old when it ends.  The                                 *)
(* locals of the finished run_once are gone; the per-cycle history is      *)
(* cleared with them, except what raised.                                  *)
(***************************************************************************)
Sleep ==
    /\ pc = "sleep"
    /\ pc' = "run"
    /\ page' = 0
    /\ markets' = <<>>
    /\ feed' = <<>>
    /\ idx' = 1
    /\ live_markets' = <<>>
    /\ selected' = <<>>
    /\ k' = 1
    /\ handed' = <<>>
    /\ updCount' = ZeroCount
    /\ scored' = <<>>
    /\ nEvaluated' = 0
    /\ evM' = NoMarket
    /\ evPrev' = NoSnapshot
    /\ evScore' = None
    /\ saves' = 0
    /\ failed' = FALSE
    /\ paced' = (IF lateStart THEN paced ELSE TRUE)
    /\ lateStart' = FALSE
    /\ UNCHANGED <<cfg, data, file, cycle, err, startData, startFile,
                   totalUpd, cyclesSeen, saved, loopq, inflight>>

\* The orchestrating thread.  The steps of the notifier loop join it in
\* NextNotify, the start and restart of the process in NextBoot.
Next ==
    \/ RunOnceStart
    \/ \E batch \in NextPages(Listings) : FetchPage(batch)
    \/ FetchReturn
    \/ FetchRaise
    \/ ProcessRecord
    \/ Save
    \/ SaveRaise
    \/ Rank
    \/ Notify
    \/ SendSleep
    \/ NotifyRaise
    \/ NotifyDone
    \/ Except
    \/ Sleep

Spec == Init /\ [][Next]_vars

(***************************************************************************)
(* The run loop under its scheduling: one thread that executes every step  *)
(* it reaches (a request ends by REQUEST_TIMEOUT, a sleep ends), over a    *)
(* feed of fewer kinds of page.                                            *)
(***************************************************************************)
LoopBatches == { <<A1, B1>>, <<A3, B3>>, <<NoIdRaw, A2>> }

NextLoop ==
    \/ RunOnceStart
    \/ \E batch \in NextPages(Paged(LoopBatches)) : FetchPage(batch)
    \/ FetchReturn
    \/ FetchRaise
    \/ ProcessRecord
    \/ Save
    \/ SaveRaise
    \/ Rank
    \/ Notify
    \/ SendSleep
    \/ NotifyRaise
    \/ NotifyDone
    \/ Except
    \/ Sleep

FairSpec == Init /\ [][NextLoop]_vars /\ WF_vars(NextLoop)

(***************************************************************************)
(* The run loop of a process constructed on the file an earlier run left   *)
(* (MarketState._load): the store holds markets last seen before the first *)
(* cycle of this process, with the counts that run gave them.              *)
(***************************************************************************)
GapStores ==
    { update(update(update(EmptyData, parse(A1), 0), parse(B1), 0),
             parse(B2), 0),
      update(update(update(EmptyData, parse(A1), 0), parse(B1), 0),
             parse(A2), 0),
      update(update(EmptyData, parse(A1), 0), parse(A2), 0) }

InitGap ==
    /\ cfg = BotCfg
    /\ data \in GapStores
    /\ file = file_written(data)
    /\ pc = "run"
    /\ cycle = 0
    /\ page = 0
    /\ markets = <<>>
    /\ feed = <<>>
    /\ idx = 1
    /\ live_markets = <<>>
    /\ selected = <<>>
    /\ k = 1
    /\ handed = <<>>
    /\ err = "none"
    /\ startData = data
    /\ startFile = file
    /\ updCount = ZeroCount
    /\ totalUpd = ZeroCount
    /\ cyclesSeen = ZeroCount
    /\ scored = <<>>
    /\ nEvaluated = 0
    /\ evM = NoMarket
    /\ evPrev = NoSnapshot
    /\ evScore = None
    /\ saved = data
    /\ saves = 0
    /\ loopq = <<>>
    /\ inflight = 0
    /\ failed = FALSE
    /\ paced = TRUE
    /\ lateStart = FALSE

SpecGap == InitGap /\ [][NextLoop]_vars

(***************************************************************************)
(* is_live on its own: a bot whose configuration and store are drawn from  *)
(* bounded sets evaluates one parsed observation.                          *)
(***************************************************************************)
EvalConfigs ==
    [MIN_VOLUME : {2, 3}, MIN_SPREAD : {8}, MAX_SPREAD : {80},
     MIN_VOLUME_DELTA : {0, 1}, MIN_PRICE_MOVE : {0, 15},
     PERSISTENCE_CYCLES : {1, 2}, MAX_ALERTS_PER_CYCLE : {6},
     MAX_PAGES : {10}]

EvalVolumes == 1..4
EvalBids == {50, 60}
EvalAsks == {60, 65, 90}
EvalSpreads == {Missing, Num(0), Num(80), Num(85)}

\* Raw records of m1, with either quote leg present or absent.
EvalRaws ==
    { Raw("m1", b, a, sp, Num(v)) :
        b \in {Missing} \cup { Num(x) : x \in EvalBids },
        a \in {Missing} \cup { Num(x) : x \in EvalAsks },
        sp \in EvalSpreads, v \in EvalVolumes }

\* Snapshots as update writes them.
EvalSnapshots ==
    { [present |-> TRUE, volume |-> v, best_bid |-> b, best_ask |-> a,
       last_seen |-> 1, persistence |-> p] :
        v \in 1..3, b \in EvalBids, a \in {65, 90}, p \in {1, 2} }

EvalStores ==
    {EmptyData}
    \cup { [i \in {"m2"} |-> sn] : sn \in {CHOOSE x \in EvalSnapshots : TRUE} }
    \cup { [i \in {"m1"} |-> sn] : sn \in EvalSnapshots }

InitEval ==
    /\ cfg \in EvalConfigs
    /\ data \in EvalStores
    /\ feed \in { <<raw>> : raw \in EvalRaws }
    /\ evM = NoMarket
    /\ pc = "parse"
    /\ file = file_missing
    /\ cycle = 0
    /\ page = 0
    /\ markets = <<>>
    /\ idx = 1
    /\ live_markets = <<>>
    /\ selected = <<>>
    /\ k = 1
    /\ handed = <<>>
    /\ err = "none"
    /\ startData = data
    /\ startFile = file_missing
    /\ updCount = ZeroCount
    /\ totalUpd = ZeroCount
    /\ cyclesSeen = ZeroCount
    /\ scored = <<>>
    /\ nEvaluated = 0
    /\ evPrev = NoSnapshot
    /\ evScore = None
    /\ saved = EmptyData
    /\ saves = 0
    /\ loopq = <<>>
    /\ inflight = 0
    /\ failed = FALSE
    /\ paced = TRUE
    /\ lateStart = FALSE

ParseCall ==
    /\ pc = "parse"
    /\ evM' = parse(feed[1])
    /\ pc' = "is_live"
    /\ UNCHANGED <<cfg, data, file, cycle, page, markets, feed, idx,
                   live_markets, selected, k, handed, err, startData,
                   startFile, updCount, totalUpd, cyclesSeen, scored,
                   nEvaluated, evPrev, evScore, svars, nvars>>

IsLiveCall ==
    /\ pc = "is_live"
    /\ evPrev' = get(data, evM.id)
    /\ evScore' = is_live(evM, data, cfg)
    /\ pc' = "returned"
    /\ UNCHANGED <<cfg, data, file, cycle, page, markets, feed, idx,
                   live_markets, selected, k, handed, err, startData,
                   startFile, updCount, totalUpd, cyclesSeen, scored,
                   nEvaluated, evM,
                   svars, nvars>>

NextEval ==
    \/ ParseCall
    \/ IsLiveCall

SpecEval == InitEval /\ [][NextEval]_vars

(***************************************************************************)
(* C1.  is_live returns a score exactly when there is a prior snapshot and *)
(* all the gates pass together: volume - prior.volume >= MIN_VOLUME_DELTA, *)
(* |bid - prior.bid| + |ask - prior.ask| >= MIN_PRICE_MOVE,                *)
(* prior.persistence >= PERSISTENCE_CYCLES, volume >= MIN_VOLUME and       *)
(* MIN_SPREAD <= spread <= MAX_SPREAD; the score is then volume_delta *    *)
(* price_move * spread; and putting any single gated value below its       *)
(* threshold, the rest as it is, makes the result absent.                  *)
(***************************************************************************)
GatesPass(m, prev, c) ==
    /\ prev.present
    /\ m.volume - prev.volume >= c.MIN_VOLUME_DELTA
    /\ Abs(m.best_bid - prev.best_bid) + Abs(m.best_ask - prev.best_ask)
          >= c.MIN_PRICE_MOVE
    /\ prev.persistence >= c.PERSISTENCE_CYCLES
    /\ m.volume >= c.MIN_VOLUME
    /\ c.MIN_SPREAD <= m.spread
    /\ m.spread <= c.MAX_SPREAD

WithPrev(d, id, prev) == [i \in DOMAIN d |-> IF i = id THEN prev ELSE d[i]]

C1_GatesDecideScore ==
    pc = "returned" =>
      LET prev == evPrev
          id == evM.id
      IN  /\ evScore.some <=> GatesPass(evM, prev, cfg)
          /\ evScore.some =>
                evScore.val =
                   (evM.volume - prev.volume)
                   * (Abs(evM.best_bid - prev.best_bid)
                      + Abs(evM.best_ask - prev.best_ask))
                   * evM.spread
          \* volume below MIN_VOLUME
          /\ \A v \in 0..4 :
                v < cfg.MIN_VOLUME =>
                   ~is_live([evM EXCEPT !.volume = v], data, cfg).some
          \* spread outside [MIN_SPREAD, MAX_SPREAD]
          /\ \A sp \in { 5 * x : x \in 0..18 } :
                (sp < cfg.MIN_SPREAD \/ sp > cfg.MAX_SPREAD) =>
                   ~is_live([evM EXCEPT !.spread = sp], data, cfg).some
          /\ prev.present =>
                \* prior persistence below PERSISTENCE_CYCLES
                /\ \A p \in 0..2 :
                      p < cfg.PERSISTENCE_CYCLES =>
                         ~is_live(evM,
                                  WithPrev(data, id,
                                           [prev EXCEPT !.persistence = p]),
                                  cfg).some
                \* volume delta below MIN_VOLUME_DELTA
                /\ \A pv \in 0..5 :
                      evM.volume - pv < cfg.MIN_VOLUME_DELTA =>
                         ~is_live(evM,
                                  WithPrev(data, id,
                                           [prev EXCEPT !.volume = pv]),
                                  cfg).some
                \* price move below MIN_PRICE_MOVE
                /\ \A pb \in { 5 * x : x \in 9..13 },
                      pa \in { 5 * x : x \in 12..19 } :
                      Abs(evM.best_bid - pb) + Abs(evM.best_ask - pa)
                         < cfg.MIN_PRICE_MOVE =>
                         ~is_live(evM,
                                  WithPrev(data, id,
                                           [prev EXCEPT !.best_bid = pb,
                                                        !.best_ask = pa]),
                                  cfg).some

\* Prior (100000, 0.375, 0.40625, persistence 2), new (150000, 0.3125,
\* 0.5625), defaults: score 50000 * 0.21875 * 0.25 = 1 * 35 * 40.
C1_Witness ==
    /\ pc = "returned"
    /\ cfg.MIN_VOLUME = 2 /\ cfg.MIN_VOLUME_DELTA = 0
    /\ cfg.MIN_PRICE_MOVE = 0 /\ cfg.PERSISTENCE_CYCLES = 1
    /\ evM.volume = 3 /\ evM.best_bid = 50 /\ evM.best_ask = 90
    /\ evM.spread = 40
    /\ evPrev.present /\ evPrev.volume = 2 /\ evPrev.best_bid = 60
    /\ evPrev.best_ask = 65 /\ evPrev.persistence = 2
    /\ evScore = Some(1400)

(***************************************************************************)
(* C6.  For a market id with no snapshot in the store is_live returns      *)
(* absent, whatever the observation and the thresholds.                    *)
(***************************************************************************)
C6_FirstSightingAbsent ==
    (pc = "returned" /\ evM.id \notin DOMAIN data) => ~evScore.some

\* A first observation that clears the absolute gates, in a store that
\* holds another market.
C6_Witness ==
    /\ pc = "returned"
    /\ evM.id \notin DOMAIN data
    /\ data # EmptyData
    /\ evM.volume >= cfg.MIN_VOLUME
    /\ cfg.MIN_SPREAD <= evM.spread /\ evM.spread <= cfg.MAX_SPREAD
    /\ evScore = None

(***************************************************************************)
(* C2.  The evaluation of a valid record reads the snapshot of its market  *)
(* id as it stood when the cycle began, never one written earlier in the   *)
(* same cycle, also when the feed holds the id more than once.             *)
(***************************************************************************)
C2_EvalReadsCycleStartSnapshot ==
    evM.ok => evPrev = get(startData, evM.id)

(***************************************************************************)
(* C3.  When the loop of a cycle is over, update has been called exactly   *)
(* once for every market id that a valid record of the feed carries, and   *)
(* the persistence of such an id is one more than when the cycle began.    *)
(***************************************************************************)
FeedIds(f) == { parse(f[j]).id : j \in { n \in 1..Len(f) : parse(f[n]).ok } }

C3_OneUpdatePerIdPerCycle ==
    pc = "rank" =>
      \A i \in FeedIds(feed) :
         /\ updCount[i] = 1
         /\ get(data, i).persistence = get(startData, i).persistence + 1

(***************************************************************************)
(* C4.  Every market whose evaluation returned a score in this cycle, a    *)
(* score of zero included, is in the candidate list that is ranked.        *)
(* (Stated for the cycles whose feed carries no id twice, so that the      *)
(* case does not rest on a record evaluated against its own cycle.)        *)
(***************************************************************************)
C4_EveryScoreIsCandidate ==
    (pc = "rank" /\ \A i \in Ids : updCount[i] <= 1) =>
      \A j \in 1..Len(scored) :
         \E l \in 1..Len(live_markets) : live_markets[l] = scored[j]

(***************************************************************************)
(* C5.  What run_once hands to the notifier is at most                     *)
(* MAX_ALERTS_PER_CYCLE candidates, in non-increasing score order, equal   *)
(* scores in feed order; when run_once has returned normally, it is        *)
(* min(MAX_ALERTS_PER_CYCLE, #candidates) of the candidates, and every     *)
(* candidate left out scores no higher than any one handed off, and comes  *)
(* later in the feed than a handed-off one of the same score.              *)
(***************************************************************************)
C5_RankedSelection ==
    LET H == 1..Len(handed)
        L == 1..Len(live_markets)
        HandedPos == { handed[a].pos : a \in H }
    IN  /\ Len(handed) <= cfg.MAX_ALERTS_PER_CYCLE
        /\ \A a \in H : \E l \in L : live_markets[l] = handed[a]
        /\ \A a, b \in H :
              a < b =>
                 \/ handed[a].score > handed[b].score
                 \/ /\ handed[a].score = handed[b].score
                    /\ handed[a].pos < handed[b].pos
        /\ (pc = "sleep" /\ err = "none") =>
              /\ Len(handed) = Min(Len(live_markets), cfg.MAX_ALERTS_PER_CYCLE)
              /\ \A l \in L :
                    live_markets[l].pos \notin HandedPos =>
                       \A a \in H :
                          \/ handed[a].score > live_markets[l].score
                          \/ /\ handed[a].score = live_markets[l].score
                             /\ handed[a].pos < live_markets[l].pos

\* Seven candidates (1200, 375, 1200, 375, 1200, 375, 375 in feed order):
\* ties, records the sort moves ahead of earlier ones, and a truncation to
\* six that cuts through a tie.
C5_Witness ==
    /\ pc = "sleep" /\ err = "none"
    /\ Len(live_markets) = 7
    /\ Len(handed) = 6
    /\ handed[1].score = handed[2].score
    /\ handed[1].m.id # handed[2].m.id
    /\ handed[3].pos > handed[4].pos
    /\ live_markets[7].score = handed[6].score
    /\ live_markets[7].pos > handed[6].pos

(***************************************************************************)
(* C7.  From a store with no entry for m, the persistence stored for m     *)
(* after the Nth update of m is N (1 after the first, which creates the    *)
(* snapshot); with one update in each of N cycles that is N after the Nth  *)
(* cycle.                                                                  *)
(***************************************************************************)
C7_PersistenceCountsUpdates ==
    \A i \in Ids :
       /\ (i \in DOMAIN data) <=> (totalUpd[i] >= 1)
       /\ (i \in DOMAIN data) => data[i].persistence = totalUpd[i]
       /\ (i \in DOMAIN data /\ totalUpd[i] = cyclesSeen[i]) =>
             data[i].persistence = cyclesSeen[i]

\* m1 was updated once in each of MaxCycles consecutive cycles.
C7_Witness ==
    /\ pc = "sleep"
    /\ cycle = MaxCycles
    /\ cyclesSeen["m1"] = MaxCycles
    /\ totalUpd["m1"] = MaxCycles
    /\ data["m1"].persistence = MaxCycles

(***************************************************************************)
(* C8.  When fetch raises, on the first page or a later one, the cycle     *)
(* updates nothing and saves nothing: the store and the file are what they *)
(* were when the cycle began, and the thread is in run's handler, in the   *)
(* interval wait or back at the top of the loop.                           *)
(***************************************************************************)
C8_FailedFetchChangesNothing ==
    err = "fetch" =>
       /\ data = startData
       /\ file = startFile
       /\ updCount = ZeroCount
       /\ pc \in {"except", "sleep", "run"}

\* The second page failed after a first page of records was read, with a
\* store and a file that held a market.
C8_Witness ==
    /\ err = "fetch"
    /\ page = 1
    /\ pc = "sleep"
    /\ "m1" \in DOMAIN data
    /\ file = file_written(data)

(***************************************************************************)
(* C9.  A raw record that fails normalisation (not a mapping, no id, a     *)
(* non-numeric bid, ask, spread or volume, unusable events) is skipped     *)
(* without an error:                                                       *)
(* while the loop runs and when it is over, exactly the well-formed        *)
(* records among those passed have been evaluated and applied to the       *)
(* store, nothing has raised, and an id that only malformed records carry  *)
(* has the snapshot it had when the cycle began.                           *)
(***************************************************************************)
WellFormed(raw) ==
    /\ raw.mapping
    /\ raw.hasId
    /\ raw.bestBid.tag # "nonnumeric"
    /\ raw.bestAsk.tag # "nonnumeric"
    /\ raw.spread.tag # "nonnumeric"
    /\ raw.volumeNum.tag # "nonnumeric"
    /\ raw.events # "bad"

C9_MalformedRecordSkipped ==
    pc = "loop" =>
      LET done == 1..(idx - 1)
          good == { j \in done : WellFormed(feed[j]) }
      IN  /\ err = "none"
          /\ nEvaluated = Cardinality(good)
          /\ \A i \in Ids :
                /\ updCount[i] = Cardinality({ j \in good : feed[j].id = i })
                /\ updCount[i] = 0 => get(data, i) = get(startData, i)

\* A malformed record was skipped and the record after it was evaluated
\* and stored.
C9_Witness ==
    /\ pc = "loop"
    /\ idx = 3
    /\ ~WellFormed(feed[1])
    /\ WellFormed(feed[2])
    /\ nEvaluated = 1
    /\ evM.id = feed[2].id
    /\ data[feed[2].id].volume = feed[2].volumeNum.val
    /\ data # startData

(***************************************************************************)
(* C10.  Whatever a cycle raises (in fetch, in save, in the notification   *)
(* hand-off), run catches it and does not end: the thread stays in the     *)
(* loop and, after the interval wait, the next run_once is called (or the  *)
(* thread is at the top of the loop when MaxCycles cycles have been run).  *)
(***************************************************************************)
C10_LoopSurvivesCycleError ==
    /\ [](pc \in {"run", "fetch", "loop", "rank", "notify", "send_sleep",
                  "except", "sleep"})
    /\ [](err # "none" =>
             <>(pc = "fetch" \/ (pc = "run" /\ cycle = MaxCycles)))

\* A cycle raised in the hand-off, after its save; the loop is at its top
\* with a further cycle to start.
C10_Witness ==
    /\ pc = "run"
    /\ err = "notify"
    /\ cycle < MaxCycles
    /\ file = file_written(data)

(***************************************************************************)
(* The process from its start.  LiveSpreadBot.__init__ constructs the      *)
(* MarketState, whose _load returns {} when the file does not exist and    *)
(* json.load(f) otherwise; json.load raises on a text it cannot parse, the *)
(* exception leaves __init__ and the process ends before run is called.    *)
(* The file found at the start was left by an earlier run.  A process that *)
(* is running may be stopped at any point and started again on the same    *)
(* path: its memory and its notifier thread are gone, the file stays; a    *)
(* process stopped inside save leaves the file as it was or truncated.     *)
(***************************************************************************)
load(f) == IF f.state = "missing" THEN EmptyData ELSE json_load(f.content)

BootStores ==
    { update(EmptyData, parse(A1), 0),
      update(update(update(EmptyData, parse(A1), 0), parse(B1), 0),
             parse(A2), 0) }

InitBoot ==
    /\ cfg = BotCfg
    /\ data = EmptyData
    /\ \/ file \in {file_missing, file_partial} /\ saved = EmptyData
       \/ \E d \in BootStores : file = file_written(d) /\ saved = d
    /\ pc = "init"
    /\ cycle = 0
    /\ page = 0
    /\ markets = <<>>
    /\ feed = <<>>
    /\ idx = 1
    /\ live_markets = <<>>
    /\ selected = <<>>
    /\ k = 1
    /\ handed = <<>>
    /\ err = "none"
    /\ startData = EmptyData
    /\ startFile = file
    /\ updCount = ZeroCount
    /\ totalUpd = ZeroCount
    /\ cyclesSeen = ZeroCount
    /\ scored = <<>>
    /\ nEvaluated = 0
    /\ evM = NoMarket
    /\ evPrev = NoSnapshot
    /\ evScore = None
    /\ saves = 0
    /\ loopq = <<>>
    /\ inflight = 0
    /\ failed = FALSE
    /\ paced = TRUE
    /\ lateStart = FALSE

\* MarketState.__init__: self.data = self._load() returns.
Construct ==
    /\ pc = "init"
    /\ file.state # "partial"
    /\ data' = load(file)
    /\ pc' = "run"
    /\ UNCHANGED <<cfg, file, cycle, page, markets, feed, idx, live_markets,
                   selected, k, handed, err, startData, startFile, updCount,
                   totalUpd, cyclesSeen, scored, nEvaluated, evM, evPrev,
                   evScore, svars, nvars>>

\* A loader that takes an unparsable file for an empty store.
ConstructSwallows ==
    /\ pc = "init"
    /\ file.state = "partial"
    /\ data' = EmptyData
    /\ pc' = "run"
    /\ UNCHANGED <<cfg, file, cycle, page, markets, feed, idx, live_markets,
                   selected, k, handed, err, startData, startFile, updCount,
                   totalUpd, cyclesSeen, scored, nEvaluated, evM, evPrev,
                   evScore, svars, nvars>>

\* MarketState.__init__: json.load raises, the process ends.
ConstructRaise ==
    /\ pc = "init"
    /\ file.state = "partial"
    /\ pc' = "exit"
    /\ UNCHANGED <<cfg, data, file, cycle, page, markets, feed, idx,
                   live_markets, selected, k, handed, err, startData,
                   startFile, updCount, totalUpd, cyclesSeen, scored,
                   nEvaluated, evM, evPrev, evScore, svars, nvars>>

(***************************************************************************)
(* The running process is stopped and the program is started again.  The   *)
(* notifier loop of the stopped process is gone with what it held.         *)
(* Nothing waits at the start, so the time since the last start of a send  *)
(* is whatever went by before the new process came up: a delay that had    *)
(* not elapsed may or may not have elapsed by then.                        *)
(***************************************************************************)
Restart ==
    /\ pc \notin {"init", "exit"}
    /\ file' \in IF pc = "loop" /\ idx > Len(feed)
                 THEN {file, file_partial} ELSE {file}
    /\ saved' = IF file'.state = "partial" THEN EmptyData ELSE saved
    /\ pc' = "init"
    /\ data' = EmptyData
    /\ page' = 0
    /\ markets' = <<>>
    /\ feed' = <<>>
    /\ idx' = 1
    /\ live_markets' = <<>>
    /\ selected' = <<>>
    /\ k' = 1
    /\ handed' = <<>>
    /\ err' = "none"
    /\ startData' = EmptyData
    /\ startFile' = file'
    /\ updCount' = ZeroCount
    /\ totalUpd' = ZeroCount
    /\ cyclesSeen' = ZeroCount
    /\ scored' = <<>>
    /\ nEvaluated' = 0
    /\ evM' = NoMarket
    /\ evPrev' = NoSnapshot
    /\ evScore' = None
    /\ saves' = 0
    /\ loopq' = <<>>
    /\ inflight' = 0
    /\ failed' = FALSE
    /\ paced' \in {paced, TRUE}
    /\ lateStart' = FALSE
    /\ UNCHANGED <<cfg, cycle>>

NextBoot ==
    \/ Construct
    \/ ConstructRaise
    \/ Restart
    \/ NextLoop

SpecBoot == InitBoot /\ [][NextBoot]_vars

(***************************************************************************)
(* The notifier.  TelegramNotifier runs an event loop in a daemon thread.  *)
(* send() schedules the send_message coroutine on that loop with           *)
(* run_coroutine_threadsafe, drops the future it gets back and sleeps      *)
(* TELEGRAM_DELAY in the calling thread (Notify, then SendSleep).  The     *)
(* loop thread starts a scheduled coroutine whenever it is run, in the     *)
(* order of scheduling, also while the main thread sleeps; a started       *)
(* send_message returns, raises (the exception is stored in the dropped    *)
(* future), or does neither.                                               *)
(*                                                                         *)
(* Time.  `paced` is true when TELEGRAM_DELAY has elapsed since the last   *)
(* start of a send.  A start makes it false.  It becomes true when the     *)
(* delay goes by, which can happen at any point (Elapse: every step of     *)
(* either thread can take any time), and it is true for certain at the end *)
(* of a sleep of the main thread that began after the start.               *)
(***************************************************************************)
LoopStart ==
    /\ loopq # <<>>
    /\ loopq' = Tail(loopq)
    /\ inflight' = inflight + 1
    /\ paced' = FALSE
    /\ lateStart' = (pc \in {"send_sleep", "sleep"})
    /\ UNCHANGED <<cfg, data, file, pc, cycle, page, markets, feed, idx,
                   live_markets, selected, k, handed, err, startData,
                   startFile, updCount, totalUpd, cyclesSeen, scored,
                   nEvaluated, evM, evPrev, evScore, svars, failed>>

\* TELEGRAM_DELAY has gone by since the last start.
Elapse ==
    /\ ~paced
    /\ paced' = TRUE
    /\ UNCHANGED <<cfg, data, file, pc, cycle, page, markets, feed, idx,
                   live_markets, selected, k, handed, err, startData,
                   startFile, updCount, totalUpd, cyclesSeen, scored,
                   nEvaluated, evM, evPrev, evScore, svars, loopq, inflight,
                   failed, lateStart>>

DeliverOk ==
    /\ inflight > 0
    /\ inflight' = inflight - 1
    /\ UNCHANGED <<cfg, data, file, pc, cycle, page, markets, feed, idx,
                   live_markets, selected, k, handed, err, startData,
                   startFile, updCount, totalUpd, cyclesSeen, scored,
                   nEvaluated, evM, evPrev, evScore, svars, loopq, failed,
                   paced, lateStart>>

DeliverFail ==
    /\ inflight > 0
    /\ inflight' = inflight - 1
    /\ failed' = TRUE
    /\ UNCHANGED <<cfg, data, file, pc, cycle, page, markets, feed, idx,
                   live_markets, selected, k, handed, err, startData,
                   startFile, updCount, totalUpd, cyclesSeen, scored,
                   nEvaluated, evM, evPrev, evScore, svars, loopq, paced,
                   lateStart>>

NotifyBatches == { <<A1, B1>>, <<A2, B2>>, <<A3, B3>> }

NextNotify ==
    \/ RunOnceStart
    \/ \E batch \in NextPages(Paged(NotifyBatches)) : FetchPage(batch)
    \/ FetchReturn
    \/ FetchRaise
    \/ ProcessRecord
    \/ Save
    \/ SaveRaise
    \/ Rank
    \/ Notify
    \/ SendSleep
    \/ NotifyRaise
    \/ NotifyDone
    \/ Except
    \/ Sleep
    \/ LoopStart
    \/ Elapse
    \/ DeliverOk
    \/ DeliverFail

SpecNotify == Init /\ [][NextNotify]_vars

(***************************************************************************)
(* C11.  The file is overwritten atomically: at every point it holds a     *)
(* complete map, the one it held when the cycle began or the one being     *)
(* saved, and never a content that a load cannot parse.                    *)
(***************************************************************************)
C11_FileAlwaysComplete ==
    /\ file.state # "partial"
    /\ file = startFile \/ file = file_written(data)

(***************************************************************************)
(* C12.  A store constructed on a missing file is empty.  A store          *)
(* constructed on a file that exists and cannot be parsed is not           *)
(* constructed: the error ends the process at construction, and no cycle   *)
(* runs after it.                                                          *)
(***************************************************************************)
C12_MissingIsEmptyCorruptFails ==
    [][ /\ (pc = "init" /\ file.state = "missing")
            => (pc' = "run" /\ data' = EmptyData)
        /\ (pc = "init" /\ file.state = "partial")
            => (pc' = "exit" /\ cycle' = cycle)
        /\ pc = "exit" => (pc' = "exit" /\ cycle' = cycle) ]_vars

\* The process was started on a file that a failed or interrupted save of
\* an earlier cycle left cut short, and has ended at construction.
C12_Witness ==
    /\ pc = "exit"
    /\ file.state = "partial"
    /\ cycle >= 1

(***************************************************************************)
(* C13.  save() followed by the construction of a new store on the same    *)
(* path gives a map equal to the one saved: the same ids, and for each the *)
(* same volume, best_bid, best_ask, last_seen and persistence: the numbers *)
(* read from the decimal texts of the file are the numbers written.        *)
(***************************************************************************)
C13_SaveLoadRoundTrip ==
    [][ (pc = "init" /\ file.state = "written" /\ pc' = "run")
            => data' = saved ]_vars

\* A store saved by a cycle of this run (last_seen is the cycle's time),
\* one of whose prices takes five digits after the point (0.28125), has
\* been loaded by a process started afterwards.
C13_Witness ==
    /\ pc = "run"
    /\ cycle >= 1
    /\ totalUpd = ZeroCount
    /\ file.state = "written"
    /\ DOMAIN data = {"m1", "m2"}
    /\ data["m1"].last_seen >= 1
    /\ data["m1"].persistence >= 2
    /\ \E e \in file.content : Len(e.value.best_bid.frac) = 5
    /\ data = saved

(***************************************************************************)
(* C14.  Handing a notification over never waits for its delivery: in the  *)
(* notification loop the main thread always has a step to take, whatever   *)
(* is scheduled, started or failed on the notifier loop, and an error      *)
(* caught for the hand-off is one raised while the message was built,      *)
(* never one of a delivery.                                                *)
(***************************************************************************)
C14_HandOffNeverWaits ==
    /\ pc = "notify" => ENABLED (Notify \/ NotifyRaise \/ NotifyDone)
    /\ pc = "send_sleep" => ENABLED SendSleep
    /\ err \in {"none", "fetch", "save", "notify"}
    /\ (pc \in {"except", "sleep"} /\ err = "notify")
          => (k <= Len(selected) /\ selected[k].m.question # "str")

\* The second cycle has started after a first one that returned normally,
\* while one send of the first cycle has failed and the other has started
\* and not ended.
C14_Witness ==
    /\ pc = "fetch"
    /\ cycle = 2
    /\ failed
    /\ inflight = 1
    /\ loopq = <<>>

(***************************************************************************)
(* C18.  The pacing delay is kept where the sends are started: the notifier *)
(* loop starts a send only when TELEGRAM_DELAY has elapsed since the start *)
(* of the send before it, whatever the scheduling of the loop thread.      *)
(***************************************************************************)
C18_SendStartsPaced ==
    [][ inflight' = inflight + 1 => paced ]_vars

(***************************************************************************)
(* C15.  After the loop has handled a valid record, whether is_live        *)
(* returned a score or nothing for it, the store holds the record's        *)
(* volume, best_bid and best_ask under its id, with a persistence one      *)
(* above the one the store held before (1 when it held none).              *)
(***************************************************************************)
C15_UpdateWhateverTheScore ==
    (pc = "loop" /\ evM.ok) =>
        /\ evM.id \in DOMAIN data
        /\ data[evM.id].volume = evM.volume
        /\ data[evM.id].best_bid = evM.best_bid
        /\ data[evM.id].best_ask = evM.best_ask
        /\ data[evM.id].persistence = evPrev.persistence + 1

\* A record of a market seen before was evaluated to nothing, and the store
\* holds its new volume and the next persistence.
C15_Witness ==
    /\ pc = "loop"
    /\ evM.ok
    /\ evPrev.present
    /\ ~evScore.some
    /\ evM.volume # evPrev.volume
    /\ data[evM.id].volume = evM.volume
    /\ data[evM.id].persistence = evPrev.persistence + 1

(***************************************************************************)
(* C16.  No step removes an id from the store or lowers a persistence.  A  *)
(* snapshot changes only when the loop handles a valid record of its id,   *)
(* and its persistence is then the stored one plus 1, however many cycles  *)
(* went by without the id; an id enters the store the same way.  So a      *)
(* cycle leaves alone every id that its feed does not contain.             *)
(***************************************************************************)
C16_OnlyTheRecordsIdChanges ==
    [][ /\ \A i \in DOMAIN data :
              /\ i \in DOMAIN data'
              /\ data'[i].persistence >= data[i].persistence
              /\ data'[i] # data[i] =>
                    /\ pc = "loop" /\ idx <= Len(feed)
                    /\ parse(feed[idx]).ok /\ parse(feed[idx]).id = i
                    /\ data'[i].persistence = data[i].persistence + 1
        /\ \A i \in DOMAIN data' \ DOMAIN data :
              /\ pc = "loop" /\ idx <= Len(feed)
              /\ parse(feed[idx]).ok /\ parse(feed[idx]).id = i ]_vars

\* A market stored with persistence 2 by an earlier run was not in the
\* feed of cycle 1, which handled the other market and left this one as it
\* was; cycle 2 has just handled a record of it: persistence 3.
C16_Witness ==
    /\ pc = "loop"
    /\ cycle = 2
    /\ updCount["m2"] = 1
    /\ DOMAIN startData = {"m1", "m2"}
    /\ startData["m1"].last_seen = 1
    /\ startData["m2"].last_seen = 0
    /\ startData["m2"].persistence = 2
    /\ data["m2"].last_seen = 2
    /\ data["m2"].persistence = 3

(***************************************************************************)
(* C17.  In a cycle whose fetch returned, save is called exactly once:     *)
(* not while records are being handled (the file stays as the cycle found  *)
(* it), once the last record is done, before anything is handed to the     *)
(* notifier, and also when nothing qualified.  A cycle whose fetch raised  *)
(* does not call it.                                                       *)
(***************************************************************************)
C17_SaveOncePerCycle ==
    /\ pc \in {"run", "fetch"} => saves = 0
    /\ pc = "loop" => (saves = 0 /\ file = startFile)
    /\ pc \in {"rank", "notify", "send_sleep"} =>
          (saves = 1 /\ file = file_written(data))
    /\ pc \in {"except", "sleep"} =>
          saves = (IF err = "fetch" THEN 0 ELSE 1)
    /\ saves = 1 => idx > Len(feed)
    /\ handed # <<>> => saves = 1

\* A cycle in which two records were handled and nothing qualified has
\* returned, and the file holds the store the records left.
C17_Witness ==
    /\ pc = "sleep"
    /\ err = "none"
    /\ live_markets = <<>>
    /\ nEvaluated >= 2
    /\ saves = 1
    /\ file = file_written(data)
    /\ file # startFile

(***************************************************************************)
(* C19.  After every cycle, whether run_once returned or raised, the       *)
(* content of the file is the in-memory store: a load of the file gives    *)
(* the map the next cycle starts with.                                     *)
(***************************************************************************)
C19_FileIsStoreAfterEveryCycle ==
    pc = "sleep" => (file.state # "partial" /\ load(file) = data)

(***************************************************************************)
(* C19, amended.  After a cycle in which save returned (run_once returned  *)
(* normally, or raised afterwards in the notification hand-off) the        *)
(* content of the file is the in-memory store.  After a cycle whose save   *)
(* raised, the file is as the cycle found it or truncated, and the store   *)
(* keeps the updates of the cycle.                                         *)
(***************************************************************************)
C19_FileIsStoreAfterCompletedSave ==
    pc = "sleep" =>
        /\ err \in {"none", "notify"} =>
              (file = file_written(data) /\ load(file) = data)
        /\ err = "save" =>
              /\ file \in {startFile, file_partial}
              /\ \A i \in Ids : updCount[i] > 0 =>
                    data[i].persistence = get(startData, i).persistence
                                            + updCount[i]

\* A cycle that changed the store has saved it and then raised in the
\* hand-off; the file holds the changed store.
C19_Witness ==
    /\ pc = "sleep"
    /\ err = "notify"
    /\ data # startData
    /\ file # startFile
    /\ load(file) = data

(***************************************************************************)
(* C20.  A record without bestBid, without bestAsk or without both gets    *)
(* best_bid 0 and/or best_ask 1 (160 units) and a spread of at least       *)
(* best_ask - best_bid from parse, and with MIN_SPREAD 0.05 and MAX_SPREAD *)
(* 0.5 is_live never returns a score for it.                               *)
(***************************************************************************)
C20_MissingLegNeverScored ==
    (pc = "returned" /\ (feed[1].bestBid = Missing
                         \/ feed[1].bestAsk = Missing)) =>
        /\ feed[1].bestBid = Missing => evM.best_bid = 0
        /\ feed[1].bestAsk = Missing => evM.best_ask = 160
        /\ evM.spread >= evM.best_ask - evM.best_bid
        /\ ~evScore.some

(***************************************************************************)
(* C20, amended.  The defaults and the spread are as stated for every      *)
(* record that lacks a leg.  is_live returns no score when both legs are   *)
(* absent (the spread is then 1, above MAX_SPREAD), and in general when    *)
(* the resulting spread is outside the band; a record that lacks one leg   *)
(* and whose spread is inside the band is gated like any other.            *)
(***************************************************************************)
C20_BothLegsMissingNeverScored ==
    (pc = "returned" /\ (feed[1].bestBid = Missing
                         \/ feed[1].bestAsk = Missing)) =>
        /\ feed[1].bestBid = Missing => evM.best_bid = 0
        /\ feed[1].bestAsk = Missing => evM.best_ask = 160
        /\ evM.spread >= evM.best_ask - evM.best_bid
        /\ (feed[1].bestBid = Missing /\ feed[1].bestAsk = Missing)
              => (evM.spread >= 160 /\ ~evScore.some)
        /\ (evM.spread < cfg.MIN_SPREAD \/ evM.spread > cfg.MAX_SPREAD)
              => ~evScore.some

\* A record without quotes, of a market tracked long enough and with
\* enough volume, has been evaluated to nothing.
C20_Witness ==
    /\ pc = "returned"
    /\ feed[1].bestBid = Missing
    /\ feed[1].bestAsk = Missing
    /\ evPrev.present
    /\ evPrev.persistence >= cfg.PERSISTENCE_CYCLES
    /\ evM.volume >= cfg.MIN_VOLUME
    /\ evM.volume - evPrev.volume >= cfg.MIN_VOLUME_DELTA
    /\ evM.spread = 160
    /\ ~evScore.some

====
